---- MODULE Spec2Model ----
(***************************************************************************)
(* Model of app.py of learning-plan-app: the response parser               *)
(* (parse_ai_response), the blank record (create_empty_content) and the    *)
(* batch handler of POST /generate-content (generate_content).             *)
(*                                                                         *)
(* Values.  A JSON / Python value is a record [type, str, num, items,    *)
(* keys, fields]: str holds the content of a "string" (and the name of a   *)
(* "float": NaN, Infinity, -Infinity), num the value of a "number" (an     *)
(* int) or of a "bool" (1, 0), items the elements of an "array"; an        *)
(* "object" (a dict) holds its keys in insertion order (keys) and the      *)
(* function from keys to values (fields).  The slots a type does not use   *)
(* are empty.  Number literals of the model are integers.                  *)
(*                                                                         *)
(* Text.  A text (a Python str holding the service's output) is a sequence *)
(* of tokens [k, v, n].  k = "ch" is the single character v (a character   *)
(* no string of the model can hold is named: backtick, x0b, xa0, u2028,    *)
(* ...); k = "str" is a quoted JSON string literal with content v; k =     *)
(* "num" is the integer literal n; k = "lit" is one of the literals null,  *)
(* true, false, NaN, Infinity, -Infinity.  Slices cut whole tokens, which  *)
(* is exact where the code slices: it cuts 7 resp. 3 characters only after *)
(* startswith / endswith matched that many single-character tokens.        *)
(*                                                                         *)
(* Output.  The print calls of the two except blocks write to stdout,      *)
(* which encodes in UTF-8: a print whose text holds a lone surrogate       *)
(* raises UnicodeEncodeError.  The str that is the one character U+D800 is *)
(* the model string "ud800".                                               *)
(***************************************************************************)
EXTENDS Integers, Sequences, FiniteSets, TLC

VARIABLES payload, pc, days_data, idx, all_results, response, status, body,
          calls, outcomes,
          p_body, p_lead, p_trail, p_text, p_knowledge, p_skill, p_result, p_pc

vars == <<payload, pc, days_data, idx, all_results, response, status, body,
          calls, outcomes, p_body, p_lead, p_trail, p_text, p_knowledge, p_skill,
          p_result, p_pc>>

batchVars == <<payload, pc, days_data, idx, all_results, response, status,
               body, calls, outcomes>>

parseVars == <<p_body, p_lead, p_trail, p_text, p_knowledge, p_skill, p_result,
               p_pc>>

-----------------------------------------------------------------------------
(* Bounds of the model *)

MaxDays == 2

MaxPairs == 2

-----------------------------------------------------------------------------
(* Values *)

EmptyDict == [k \in {} |-> ""]

JStr(s) ==
    [type |-> "string", str |-> s, num |-> 0, items |-> <<>>, keys |-> <<>>,
     fields |-> EmptyDict]

JNum(n) ==
    [type |-> "number", str |-> "", num |-> n, items |-> <<>>, keys |-> <<>>,
     fields |-> EmptyDict]

JBool(b) ==
    [type |-> "bool", str |-> "", num |-> IF b THEN 1 ELSE 0, items |-> <<>>,
     keys |-> <<>>, fields |-> EmptyDict]

\* float('nan'), float('inf'), float('-inf'), named by their JSON literal
JFloat(name) ==
    [type |-> "float", str |-> name, num |-> 0, items |-> <<>>, keys |-> <<>>,
     fields |-> EmptyDict]

PyNone ==
    [type |-> "null", str |-> "", num |-> 0, items |-> <<>>, keys |-> <<>>,
     fields |-> EmptyDict]

JArr(items) ==
    [type |-> "array", str |-> "", num |-> 0, items |-> items, keys |-> <<>>,
     fields |-> EmptyDict]

\* A dict: its keys in insertion order and its values.
JObj(keys, fields) ==
    [type |-> "object", str |-> "", num |-> 0, items |-> <<>>, keys |-> keys,
     fields |-> fields]

EmptyObj == JObj(<<>>, EmptyDict)

\* The dict {k: v}
Dict1(k, v) == JObj(<<k>>, k :> v)

IsDict(v) == v.type = "object"

\* Python truthiness of a value: None, "", 0, False, [] and {} are falsy;
\* nan and the infinities are truthy.
Truthy(v) ==
    CASE v.type = "null"   -> FALSE
      [] v.type = "string" -> v.str # ""
      [] v.type = "number" -> v.num # 0
      [] v.type = "bool"   -> v.num # 0
      [] v.type = "float"  -> TRUE
      [] v.type = "array"  -> Len(v.items) > 0
      [] v.type = "object" -> DOMAIN v.fields # {}

\* dict.get(key, default)
DictGet(d, key, default) ==
    IF key \in DOMAIN d.fields THEN d.fields[key] ELSE default

-----------------------------------------------------------------------------
(* Text *)

Ch(c) == [k |-> "ch", v |-> c, n |-> 0]

StrTok(s) == [k |-> "str", v |-> s, n |-> 0]

NumTok(n) == [k |-> "num", v |-> "", n |-> n]

LitTok(name) == [k |-> "lit", v |-> name, n |-> 0]

NullTok == LitTok("null")

TrueTok == LitTok("true")

FalseTok == LitTok("false")

\* The backtick character (a string of the model cannot hold one).
Backtick == Ch("backtick")

\* The texts of the two fence markers: three backticks followed by json,
\* and three backticks.
FenceJson == <<Backtick, Backtick, Backtick, Ch("j"), Ch("s"), Ch("o"), Ch("n")>>

Fence == <<Backtick, Backtick, Backtick>>

\* The characters print() cannot write: stdout encodes in UTF-8, which has
\* no encoding for a lone surrogate.
Unencodable == {"ud800"}

\* The str made of the one character U+D800.
LoneSurrogate == "ud800"

\* print(f"... {s}") of a str returns instead of raising UnicodeEncodeError.
PrintableStr(s) == s \notin Unencodable

\* print(f"... {text}") of a text: every character of it, inside a string
\* literal or not, can be encoded.
PrintableText(text) == \A i \in DOMAIN text : PrintableStr(text[i].v)

\* print(f"... {v}") of a value: str() of a str is the str itself; of any
\* other value it is made of ASCII and of reprs, which escape a surrogate.
PrintableValue(v) == v.type = "string" => PrintableStr(v.str)

\* The characters str.strip() removes: every character whose isspace() is
\* true (U+0009..U+000D, U+001C..U+0020, U+0085, U+00A0, U+1680,
\* U+2000..U+200A, U+2028, U+2029, U+202F, U+205F, U+3000).
Whitespace ==
    {Ch(c) : c \in {"\t", "\n", "x0b", "\f", "\r", "x1c", "x1d", "x1e", "x1f", " ",
                    "x85", "xa0", "u1680", "u2000", "u2001", "u2002", "u2003",
                    "u2004", "u2005", "u2006", "u2007", "u2008", "u2009", "u200a",
                    "u2028", "u2029", "u202f", "u205f", "u3000"}}

\* The characters json.loads skips between tokens.
JsonWhitespace == {Ch(" "), Ch("\t"), Ch("\n"), Ch("\r")}

RECURSIVE lstrip(_)
lstrip(s) == IF s # <<>> /\ Head(s) \in Whitespace THEN lstrip(Tail(s)) ELSE s

RECURSIVE rstrip(_)
rstrip(s) ==
    IF s # <<>> /\ s[Len(s)] \in Whitespace
    THEN rstrip(SubSeq(s, 1, Len(s) - 1))
    ELSE s

\* str.strip()
strip(s) == rstrip(lstrip(s))

\* str.startswith(p), str.endswith(p)
startswith(s, p) == Len(s) >= Len(p) /\ SubSeq(s, 1, Len(p)) = p

endswith(s, p) == Len(s) >= Len(p) /\ SubSeq(s, Len(s) - Len(p) + 1, Len(s)) = p

\* s[n:] and s[:-n]
SliceFrom(s, n) == SubSeq(s, n + 1, Len(s))

SliceTo(s, n) == SubSeq(s, 1, Len(s) - n)

-----------------------------------------------------------------------------
(* json.loads: a recursive-descent decoder over the tokens.  A result is   *)
(* [ok, val, next]: whether a value was decoded, the value, and the        *)
(* position after it.                                                      *)

Decoded(v, n) == [ok |-> TRUE, val |-> v, next |-> n]

DecodeFail == [ok |-> FALSE, val |-> PyNone, next |-> 0]

TokIs(t, i, c) == i <= Len(t) /\ t[i] = Ch(c)

RECURSIVE DecodeValue(_, _), DecodeMembers(_, _, _), DecodeElements(_, _, _)
DecodeValue(t, i) ==
    IF i > Len(t) THEN DecodeFail
    ELSE IF t[i].k = "str" THEN Decoded(JStr(t[i].v), i + 1)
    ELSE IF t[i].k = "num" THEN Decoded(JNum(t[i].n), i + 1)
    ELSE IF t[i].k = "lit" THEN
        IF t[i].v = "null" THEN Decoded(PyNone, i + 1)
        ELSE IF t[i].v \in {"true", "false"} THEN Decoded(JBool(t[i].v = "true"), i + 1)
        ELSE IF t[i].v \in {"NaN", "Infinity", "-Infinity"}
             THEN Decoded(JFloat(t[i].v), i + 1)
        ELSE DecodeFail
    ELSE IF t[i] = Ch("{") THEN
        IF TokIs(t, i + 1, "}") THEN Decoded(EmptyObj, i + 2)
        ELSE DecodeMembers(t, i + 1, EmptyObj)
    ELSE IF t[i] = Ch("[") THEN
        IF TokIs(t, i + 1, "]") THEN Decoded(JArr(<<>>), i + 2)
        ELSE DecodeElements(t, i + 1, <<>>)
    ELSE DecodeFail

\* "key" : value, then "," and more members or "}"; a repeated key keeps
\* its first position and the last value, as Python's dict does.
DecodeMembers(t, i, acc) ==
    IF ~(i <= Len(t) /\ t[i].k = "str" /\ TokIs(t, i + 1, ":")) THEN DecodeFail
    ELSE LET r == DecodeValue(t, i + 2) IN
         IF ~r.ok THEN DecodeFail
         ELSE LET acc2 == JObj(IF t[i].v \in DOMAIN acc.fields THEN acc.keys
                                   ELSE Append(acc.keys, t[i].v),
                                   (t[i].v :> r.val) @@ acc.fields) IN
              IF TokIs(t, r.next, "}") THEN Decoded(acc2, r.next + 1)
              ELSE IF TokIs(t, r.next, ",") THEN DecodeMembers(t, r.next + 1, acc2)
              ELSE DecodeFail

DecodeElements(t, i, acc) ==
    LET r == DecodeValue(t, i) IN
    IF ~r.ok THEN DecodeFail
    ELSE IF TokIs(t, r.next, "]") THEN Decoded(JArr(Append(acc, r.val)), r.next + 1)
    ELSE IF TokIs(t, r.next, ",") THEN DecodeElements(t, r.next + 1, Append(acc, r.val))
    ELSE DecodeFail

\* JSON whitespace between tokens is skipped.
NoWhitespace(s) == SelectSeq(s, LAMBDA x : x \notin JsonWhitespace)

\* json.loads(text): [ok |-> TRUE, val] or, on a JSONDecodeError, ok = FALSE.
json_loads(text) ==
    LET t == NoWhitespace(text)
        r == DecodeValue(t, 1)
    IN  IF r.ok /\ r.next = Len(t) + 1 THEN r ELSE DecodeFail

-----------------------------------------------------------------------------
(* The response parser and the blank record *)

AIError == JStr("(AI Error)")

EmptyStr == JStr("")

AIKeys == {"rvw", "fcs", "vcb", "mtv", "apk", "activities", "boc", "values",
           "social", "discipline", "biblical", "eva", "smr_act", "pua"}

RecordKeys == AIKeys \cup {"knowledge", "skill"}

\* The outcome of a Python call: a returned value, or a raised exception.
Returned(v) == [raised |-> FALSE, value |-> v]

Raised(name) == [raised |-> TRUE, value |-> JStr(name)]

\* if text.strip().startswith(<fence>json): text = text.strip()[7:]
StripLeadingFence(text) ==
    IF startswith(strip(text), FenceJson) THEN SliceFrom(strip(text), 7) ELSE text

\* if text.strip().endswith(<fence>): text = text.strip()[:-3]
StripTrailingFence(text) ==
    IF endswith(strip(text), Fence) THEN SliceTo(strip(text), 3) ELSE text

StripFences(text) == StripTrailingFence(StripLeadingFence(text))

\* try: data = json.loads(text)
\* except: print(the decode error); print(text); data = {"error": "AI Response Error: ..."}
\* The decode error's message is ASCII; the print of the text raises when
\* the text cannot be encoded, and data is then never assigned.
LoadData(text) ==
    LET r == json_loads(text)
    IN  IF r.ok THEN Returned(r.val)
        ELSE IF ~PrintableText(text) THEN Raised("UnicodeEncodeError")
        ELSE Returned(Dict1("error", JStr("AI Response Error: <decode error>")))

\* The dict literal the parser returns.
BuildRecord(data, knowledge, skill) ==
    [rvw        |-> DictGet(data, "rvw", AIError),
     fcs        |-> DictGet(data, "fcs", AIError),
     vcb        |-> DictGet(data, "vcb", AIError),
     mtv        |-> DictGet(data, "mtv", AIError),
     apk        |-> DictGet(data, "apk", AIError),
     knowledge  |-> knowledge,
     skill      |-> skill,
     activities |-> DictGet(data, "activities", AIError),
     boc        |-> DictGet(data, "boc", AIError),
     values     |-> DictGet(data, "values", AIError),
     social     |-> DictGet(data, "social", AIError),
     discipline |-> DictGet(data, "discipline", AIError),
     biblical   |-> DictGet(data, "biblical", AIError),
     eva        |-> DictGet(data, "eva", AIError),
     smr_act    |-> DictGet(data, "smr_act", AIError),
     pua        |-> DictGet(data, "pua", AIError)]

\* Mutant of parse_ai_response: the decoded object is merged over the
\* record, so its own keys appear in the record and overwrite it.
parse_ai_response_Merged(text, knowledge, skill) ==
    LET loaded == LoadData(StripFences(text))
        data   == loaded.value
    IN  IF loaded.raised THEN loaded
        ELSE IF ~IsDict(data) THEN Raised("AttributeError")
        ELSE Returned([key \in RecordKeys \cup DOMAIN data.fields |->
                          IF key \in DOMAIN data.fields THEN data.fields[key]
                          ELSE IF key = "knowledge" THEN knowledge
                          ELSE IF key = "skill" THEN skill
                          ELSE AIError])

\* parse_ai_response(text, knowledge, skill).  An exception of the except
\* block's print propagates; data.get exists only on a dict: a decoded
\* list, number, string or null raises AttributeError.
parse_ai_response(text, knowledge, skill) ==
    LET loaded == LoadData(StripFences(text))
    IN  IF loaded.raised THEN loaded
        ELSE IF ~IsDict(loaded.value) THEN Raised("AttributeError")
        ELSE Returned(BuildRecord(loaded.value, knowledge, skill))

\* create_empty_content(knowledge, skill)
create_empty_content(knowledge, skill) ==
    [rvw |-> EmptyStr, fcs |-> EmptyStr, vcb |-> EmptyStr, mtv |-> EmptyStr,
     apk |-> EmptyStr, knowledge |-> knowledge, skill |-> skill,
     activities |-> EmptyStr, boc |-> EmptyStr, values |-> EmptyStr,
     social |-> EmptyStr, discipline |-> EmptyStr, biblical |-> EmptyStr,
     eva |-> EmptyStr, smr_act |-> EmptyStr, pua |-> EmptyStr]

\* create_lesson_prompt(topic, knowledge, skill): the fixed template with
\* the three values embedded.
create_lesson_prompt(topic, knowledge, skill) ==
    [template |-> "lesson", topic |-> topic, knowledge |-> knowledge,
     skill |-> skill]

-----------------------------------------------------------------------------
(* Inputs of the parser: texts the service can return *)

GenKeys == {"rvw", "pua", "skill", "error"}

GenValues == {<<StrTok("Q?")>>, <<NumTok(5)>>, <<NullTok>>, <<TrueTok>>}

Pairs == {<<StrTok(k), Ch(":")>> \o v : k \in GenKeys, v \in GenValues}

RECURSIVE MembersOf(_)
MembersOf(n) ==
    IF n = 1 THEN Pairs
    ELSE {m \o <<Ch(",")>> \o p : m \in MembersOf(n - 1), p \in Pairs}

\* The texts of JSON objects with at most MaxPairs members.
ObjectTexts ==
    {<<Ch("{"), Ch("}")>>} \cup
    UNION {{<<Ch("{")>> \o m \o <<Ch("}")>> : m \in MembersOf(n)} : n \in 1..MaxPairs}

\* The texts of JSON values that are not objects.
NonObjectTexts ==
    {<<StrTok("hello")>>, <<StrTok(LoneSurrogate)>>, <<NumTok(5)>>, <<NullTok>>,
     <<FalseTok>>, <<LitTok("NaN")>>,
     <<Ch("["), Ch("]")>>, <<Ch("["), StrTok("a"), Ch(","), NumTok(5), Ch("]")>>}

\* Texts that are not JSON.
MalformedTexts ==
    {<<>>, <<Ch("n"), Ch("o")>>, <<Ch("{")>>, <<Ch(LoneSurrogate)>>,
     <<Ch("{"), StrTok("rvw"), Ch(":"), StrTok(LoneSurrogate)>>,
     <<Ch("{"), StrTok("rvw"), Ch(":")>>,
     <<Ch("{"), StrTok("rvw"), Ch(":"), StrTok("Q?"), Ch(","), Ch("}")>>,
     <<Ch("{"), Ch("}"), Ch("}")>>}

BodyTexts == ObjectTexts \cup NonObjectTexts \cup MalformedTexts

LeadMarkers == {<<>>, FenceJson, Fence}

TrailMarkers == {<<>>, Fence}

\* Whitespace around the text and between the markers and the body: none,
\* JSON whitespace, and whitespace only str.strip() knows.
OuterSpace == {<<>>, <<Ch(" ")>>, <<Ch("\r"), Ch("\n")>>, <<Ch("xa0")>>}

InnerSpace == {<<>>, <<Ch("\n")>>, <<Ch("\t")>>, <<Ch("\f")>>}

Wrap(b, lead, trail, outer, inner) ==
    outer \o lead \o inner \o b \o inner \o trail \o outer

ParseKnowledge == {JStr("K1"), JStr("K2")}

ParseSkill == {JStr("S1")}

NotCalled == Raised("not called")

-----------------------------------------------------------------------------
(* The batch handler's inputs *)

TopicValues == {JStr(""), JStr("T")}

KnowledgeValues == {JStr(""), JStr("K1"), JStr("K2")}

SkillValues == {JStr(""), JStr("S")}

\* A day entry that is a JSON object: each of the three keys absent or set.
MakeDay(t, k, s) ==
    LET given == [topic |-> t, knowledge |-> k, skill |-> s]
        keys  == SelectSeq(<<"topic", "knowledge", "skill">>,
                           LAMBDA x : given[x] # PyNone)
    IN  JObj(keys, [x \in {keys[i] : i \in DOMAIN keys} |-> given[x]])

\* PyNone as an argument of MakeDay leaves the key out of the object.
DayObjects ==
    {MakeDay(t, k, s) : t \in TopicValues \cup {PyNone},
                        k \in KnowledgeValues \cup {PyNone},
                        s \in SkillValues \cup {PyNone}}

\* A day entry whose topic print() cannot write.
SurrogateTopicDay == MakeDay(JStr(LoneSurrogate), JStr("K1"), JStr("S"))

\* Entries of the days array that are not JSON objects.
NonObjectEntries == {PyNone, JStr("monday")}

Entries == DayObjects \cup {SurrogateTopicDay} \cup NonObjectEntries

RECURSIVE SeqsUpTo(_, _)
SeqsUpTo(S, n) ==
    IF n = 0 THEN {<<>>}
    ELSE LET shorter == SeqsUpTo(S, n - 1)
         IN  shorter \cup {Append(q, e) : q \in {r \in shorter : Len(r) = n - 1}, e \in S}

\* What request.json can be: a non-object, an object without days, an
\* object whose days is null, a number, a string, an object or a list of
\* entries.
Payloads ==
    {PyNone, JArr(<<>>), EmptyObj,
     Dict1("days", PyNone), Dict1("days", JNum(4)),
     Dict1("days", JStr("")), Dict1("days", JStr("ab")),
     Dict1("days", EmptyObj),
     Dict1("days", JObj(<<"tue", "mon">>,
                        ("tue" :> MakeDay(JStr("T"), JStr("K1"), JStr("S"))) @@
                        ("mon" :> MakeDay(JStr("T"), JStr("K2"), JStr("S")))))}
    \cup {Dict1("days", JArr(q)) : q \in SeqsUpTo(Entries, MaxDays)}

ExtraKeysText ==
    <<Ch("{"), StrTok("rvw"), Ch(":"), StrTok("Q?"), Ch(","),
      StrTok("knowledge"), Ch(":"), StrTok("X"), Ch(","),
      StrTok("error"), Ch(":"), StrTok("E"), Ch(","),
      StrTok("extra"), Ch(":"), StrTok("Z"), Ch("}")>>

FencedJsonText ==
    FenceJson \o <<Ch("\n"), Ch("{"), StrTok("rvw"), Ch(":"), StrTok("Q?"), Ch(","),
                   StrTok("fcs"), Ch(":"), NumTok(5), Ch("}"), Ch("\n")>> \o Fence

BareFenceText ==
    Fence \o <<Ch("\n"), Ch("{"), StrTok("rvw"), Ch(":"), StrTok("Q?"), Ch("}"),
               Ch("\n")>> \o Fence

NotJsonText == <<Ch("n"), Ch("o")>>

\* A fenced answer with CRLF line ends and a value that is no string.
CrlfFencedText ==
    FenceJson \o <<Ch("\r"), Ch("\n"), Ch("{"), StrTok("rvw"), Ch(":"), TrueTok, Ch("}"),
                   Ch("\r"), Ch("\n")>> \o Fence \o <<Ch("\r"), Ch("\n")>>

\* A text that is not JSON and that print() cannot write.
SurrogateText == <<Ch(LoneSurrogate)>>

ServiceTexts ==
    {ExtraKeysText, FencedJsonText, BareFenceText, NotJsonText, CrlfFencedText,
     SurrogateText, <<Ch("{"), Ch("}")>>, <<Ch("["), Ch("]")>>}

\* str(e) of an exception the service raises.
ServiceMessages == {"down", LoneSurrogate}

NoResponse == [kind |-> "none", text |-> <<>>, msg |-> ""]

\* The responses the service's call can return: one whose text cannot be
\* read (reading it raises), or one with a text.
ServiceResponses ==
    {[kind |-> "text_raises", text |-> <<>>, msg |-> m] : m \in ServiceMessages} \cup
    {[kind |-> "text", text |-> t, msg |-> ""] : t \in ServiceTexts}

\* What the service's call can do for one prompt: raise, or return a
\* response.
ServiceOutcomes ==
    {[kind |-> "raises", text |-> <<>>, msg |-> m] : m \in ServiceMessages} \cup
    ServiceResponses

NoBody == [kind |-> "none", results |-> <<>>, error |-> ""]

-----------------------------------------------------------------------------
(* POST /generate-content: generate_content, one action per step *)

\* Whether "for day in days_data" can iterate the value: a list, a dict
\* and a str can be iterated, None and a number cannot.
Iterable(v) == v.type \in {"array", "object", "string"}

\* The items the loop visits: a list's elements, a dict's keys in insertion
\* order, a str's characters.
IterItems(v) ==
    CASE v.type = "array"  -> v.items
      [] v.type = "object" -> [i \in 1..Len(v.keys) |-> JStr(v.keys[i])]
      [] v.type = "string" -> [i \in 1..Len(v.str) |-> JStr(SubSeq(v.str, i, i))]

\* The locals of the current iteration.
Day == days_data[idx]

Topic == DictGet(Day, "topic", PyNone)

Knowledge == DictGet(Day, "knowledge", PyNone)

Skill == DictGet(Day, "skill", PyNone)

\* Mutant of IsBlank: the skill is not looked at.
IsBlank_SkillIgnored(topic, knowledge, skill) ==
    ~Truthy(topic) \/ ~Truthy(knowledge)

\* if not topic or not knowledge or not skill
IsBlank(topic, knowledge, skill) ==
    ~Truthy(topic) \/ ~Truthy(knowledge) \/ ~Truthy(skill)

\* The outer except: return jsonify({"error": str(e)}), 500
BatchError(e) ==
    /\ pc' = "done"
    /\ status' = 500
    /\ body' = [kind |-> "error", results |-> <<>>, error |-> e]

\* The outer except block itself raises (its print of the traceback), so
\* the exception leaves generate_content: no JSON body is returned, and
\* Flask answers an exception of a view with status 500 and a page of its
\* own.
HandlerRaises(e) ==
    /\ pc' = "done"
    /\ status' = 500
    /\ body' = [kind |-> "unhandled", results |-> <<>>, error |-> e]

\* all_results.append(record), and on to the next entry
AppendRecord(record, kind) ==
    /\ all_results' = Append(all_results, record)
    /\ outcomes' = Append(outcomes, [kind |-> kind, text |-> response.text])
    /\ idx' = idx + 1
    /\ pc' = "loop"
    /\ response' = NoResponse

\* data = request.json; days_data = data.get('days'); all_results = [];
\* the loop's iterator is taken
ReadRequest ==
    /\ pc = "recv"
    /\ IF ~IsDict(payload)
       THEN BatchError("AttributeError") /\ UNCHANGED days_data
       ELSE IF ~Iterable(DictGet(payload, "days", PyNone))
       THEN BatchError("TypeError") /\ UNCHANGED days_data
       ELSE /\ days_data' = IterItems(DictGet(payload, "days", PyNone))
            /\ pc' = "loop"
            /\ UNCHANGED <<status, body>>
    /\ UNCHANGED <<payload, idx, all_results, response, calls, outcomes>>
    /\ UNCHANGED parseVars

\* One entry taken from the list: day.get of the three fields (on an entry
\* that is not a dict it raises, outside the inner try), then the blank check.
BlankCheck ==
    /\ pc = "loop"
    /\ idx <= Len(days_data)
    /\ IF ~IsDict(Day)
       THEN BatchError("AttributeError") /\ UNCHANGED <<all_results, outcomes, idx, response>>
       ELSE IF IsBlank(Topic, Knowledge, Skill)
       THEN AppendRecord(create_empty_content(Knowledge, Skill), "blank")
            /\ UNCHANGED <<status, body>>
       ELSE pc' = "call" /\ UNCHANGED <<all_results, outcomes, idx, response, status, body>>
    /\ UNCHANGED <<payload, days_data, calls>>
    /\ UNCHANGED parseVars

\* The inner except block, entered with an exception whose str() is msg:
\*   print(f"Error processing day with topic {topic}: {e}")
\*   all_results.append(create_empty_content(knowledge, skill))
\* A print that raises leaves the block for the outer except block, before
\* the append.  There the traceback is printed, which holds msg (the
\* exception being handled when the print raised) but not the topic: with
\* a msg that cannot be encoded this print raises as well.
InnerExcept(msg, kind) ==
    IF PrintableValue(Topic) /\ PrintableStr(msg)
    THEN /\ AppendRecord(create_empty_content(Knowledge, Skill), kind)
         /\ UNCHANGED <<status, body>>
    ELSE /\ IF PrintableStr(msg)
            THEN BatchError("UnicodeEncodeError")
            ELSE HandlerRaises("UnicodeEncodeError")
         /\ UNCHANGED <<all_results, outcomes, idx, response>>

\* full_prompt = create_lesson_prompt(...); response = model.generate_content(full_prompt).
\* The call either raises (caught by the inner except) or returns a
\* response.  The log of calls keeps what the service did.
CallModel ==
    /\ pc = "call"
    /\ \E s \in ServiceOutcomes :
          /\ calls' = Append(calls, [entry |-> idx,
                                     prompt |-> create_lesson_prompt(Topic, Knowledge, Skill),
                                     appended |-> Len(all_results),
                                     service |-> s])
          /\ IF s.kind = "raises"
             THEN InnerExcept(s.msg, "call_raised")
             ELSE /\ response' = s
                  /\ pc' = "parse"
                  /\ UNCHANGED <<all_results, outcomes, idx, status, body>>
    /\ UNCHANGED <<payload, days_data>>
    /\ UNCHANGED parseVars

\* parsed_content = parse_ai_response(response.text, knowledge, skill);
\* all_results.append(parsed_content); any exception enters the inner
\* except block (the messages of the parser's exceptions are ASCII).
ParseAndAppend ==
    /\ pc = "parse"
    /\ IF response.kind = "text_raises"
       THEN InnerExcept(response.msg, "text_raised")
       ELSE LET r == parse_ai_response(response.text, Knowledge, Skill)
            IN  IF r.raised
                THEN InnerExcept(r.value.str, "parse_raised")
                ELSE /\ AppendRecord(r.value, "parsed")
                     /\ UNCHANGED <<status, body>>
    /\ UNCHANGED <<payload, days_data, calls>>
    /\ UNCHANGED parseVars

\* return jsonify({"results": all_results})
ReturnResults ==
    /\ pc = "loop"
    /\ idx > Len(days_data)
    /\ pc' = "done"
    /\ status' = 200
    /\ body' = [kind |-> "results", results |-> all_results, error |-> ""]
    /\ UNCHANGED <<payload, days_data, idx, all_results, response, calls, outcomes>>
    /\ UNCHANGED parseVars

Init ==
    /\ payload \in Payloads
    /\ pc = "recv"
    /\ days_data = <<>>
    /\ idx = 1
    /\ all_results = <<>>
    /\ response = NoResponse
    /\ status = 0
    /\ body = NoBody
    /\ calls = <<>>
    /\ outcomes = <<>>
    /\ p_body = <<>>
    /\ p_lead = <<>>
    /\ p_trail = <<>>
    /\ p_text = <<>>
    /\ p_knowledge = PyNone
    /\ p_skill = PyNone
    /\ p_result = NotCalled
    /\ p_pc = "idle"

Next ==
    \/ ReadRequest
    \/ BlankCheck
    \/ CallModel
    \/ ParseAndAppend
    \/ ReturnResults

Spec == Init /\ [][Next]_vars

-----------------------------------------------------------------------------
(* The parser applied to one text *)

InitParse ==
    /\ payload = PyNone
    /\ pc = "idle"
    /\ days_data = <<>>
    /\ idx = 1
    /\ all_results = <<>>
    /\ response = NoResponse
    /\ status = 0
    /\ body = NoBody
    /\ calls = <<>>
    /\ outcomes = <<>>
    /\ p_body \in BodyTexts
    /\ p_lead \in LeadMarkers
    /\ p_trail \in TrailMarkers
    /\ \E outer \in OuterSpace, inner \in InnerSpace :
          p_text = Wrap(p_body, p_lead, p_trail, outer, inner)
    /\ p_knowledge \in ParseKnowledge
    /\ p_skill \in ParseSkill
    /\ p_result = NotCalled
    /\ p_pc = "ready"

ParseCall ==
    /\ p_pc = "ready"
    /\ p_result' = parse_ai_response(p_text, p_knowledge, p_skill)
    /\ p_pc' = "returned"
    /\ UNCHANGED <<p_body, p_lead, p_trail, p_text, p_knowledge, p_skill>>
    /\ UNCHANGED batchVars

NextParse == ParseCall

SpecParse == InitParse /\ [][NextParse]_vars

-----------------------------------------------------------------------------
(* Vocabulary of the properties *)

\* The request's days value is a JSON list; DayList is that list.
DaysIsList == IsDict(payload) /\ DictGet(payload, "days", PyNone).type = "array"

DayList == DictGet(payload, "days", PyNone).items

\* Every entry of the list is a day entry, that is a JSON object.
AllDayEntries == \A i \in 1..Len(DayList) : DayList[i].type = "object"

\* A field of a day entry is absent or the empty string.
FieldBlank(day, key) == key \notin DOMAIN day.fields \/ day.fields[key] = JStr("")

BlankEntry(day) ==
    FieldBlank(day, "topic") \/ FieldBlank(day, "knowledge") \/ FieldBlank(day, "skill")

\* The entry's own pass-through values (None for an absent key).
Given(day, key) == IF key \in DOMAIN day.fields THEN day.fields[key] ELSE PyNone

AllAIFields(rec, v) == \A key \in AIKeys : rec[key] = v

PassThrough(rec, day) ==
    rec["knowledge"] = Given(day, "knowledge") /\ rec["skill"] = Given(day, "skill")

CallsFor(i) == {c \in 1..Len(calls) : calls[c].entry = i}

Done200 == pc = "done" /\ status = 200

-----------------------------------------------------------------------------
(* C1 *)

\* C1: a request whose days is a list of N day entries (N >= 0) is answered
\* with HTTP 200 and a results list of exactly N records, and results[i]
\* carries the knowledge and skill of days[i], whatever the mix of blank
\* entries, failing calls and successful calls.
C1_ResultsAnswerDays ==
    (pc = "done" /\ DaysIsList /\ AllDayEntries) =>
        /\ status = 200
        /\ body.kind = "results"
        /\ Len(body.results) = Len(DayList)
        /\ \A i \in 1..Len(DayList) : PassThrough(body.results[i], DayList[i])

-----------------------------------------------------------------------------
(* C2 *)

\* C2: no failure attributable to one entry turns the batch into a
\* batch-level error or stops the entries after it from being processed: a
\* request whose days is a list of N entries always ends with HTTP 200 and
\* N records.
C2_EntryFailuresIsolated ==
    (pc = "done" /\ DaysIsList) =>
        /\ status = 200
        /\ body.kind = "results"
        /\ Len(all_results) = Len(DayList)

-----------------------------------------------------------------------------
(* C3 *)

-----------------------------------------------------------------------------
(* C4 *)

\* C4: parse_ai_response never raises: for every text, also one that
\* decodes to a JSON value that is not an object, it returns a record with
\* the 16 keys.
C4_ParseNeverRaises ==
    p_pc = "returned" =>
        /\ ~p_result.raised
        /\ DOMAIN p_result.value = RecordKeys

-----------------------------------------------------------------------------
(* C5 *)

\* The text the parser decodes is not valid JSON.
DecodeFails(text) == ~json_loads(StripFences(text)).ok

\* C5: for a processed entry with all three fields present, (a) a call that
\* completed with a text that does not decode as JSON gives the placeholder
\* "(AI Error)" in all 14 AI fields, (b) an exception of the call, of
\* reading the text or of the parser gives the empty string in all 14 AI
\* fields; in both cases knowledge and skill are the entry's own and no
\* field holds the decode-error message.
C5_TwoFailureShapes ==
    \A i \in 1..Len(all_results) :
        ~BlankEntry(days_data[i]) =>
            /\ (outcomes[i].kind \in {"parsed", "parse_raised"}
                    /\ DecodeFails(outcomes[i].text))
                   => AllAIFields(all_results[i], JStr("(AI Error)"))
            /\ outcomes[i].kind \in {"call_raised", "text_raised", "parse_raised"}
                   => AllAIFields(all_results[i], JStr(""))
            /\ outcomes[i].kind \in {"call_raised", "text_raised", "parse_raised", "parsed"}
            /\ PassThrough(all_results[i], days_data[i])
            /\ \A key \in RecordKeys :
                   all_results[i][key] # JStr("AI Response Error: <decode error>")

-----------------------------------------------------------------------------
(* C6 *)

\* The top-level payload cannot be enumerated at all: it is no object, or
\* its days value is missing, null or a number.
CannotEnumerate == ~IsDict(payload) \/ ~Iterable(DictGet(payload, "days", PyNone))

\* C6: a request is answered with HTTP 500 and a body holding an error and
\* no results if and only if its top-level payload cannot be enumerated as
\* day entries; any payload whose days is a list is answered with HTTP 200,
\* whatever its entries contain.
C6_OnlyMalformedPayloadFails ==
    pc = "done" =>
        /\ status \in {200, 500}
        /\ CannotEnumerate => status = 500
        /\ status = 500 => ~DaysIsList
        /\ status = 500 => (body.kind = "error" /\ body.results = <<>>)
        /\ DaysIsList => status = 200

-----------------------------------------------------------------------------
(* C7 *)

\* C7: every record, on each of the three paths that produce one, has
\* exactly the 16 keys; a key absent from the generated object holds the
\* placeholder, and a key of the generated object that is not an AI key
\* (error, knowledge, skill, any other) neither appears in the record nor
\* overwrites knowledge or skill.
C7_SixteenKeys ==
    /\ \A i \in 1..Len(all_results) :
          /\ DOMAIN all_results[i] = RecordKeys
          /\ PassThrough(all_results[i], days_data[i])
          /\ (outcomes[i].kind = "parsed" /\ ~DecodeFails(outcomes[i].text)) =>
                \A key \in AIKeys :
                    key \notin DOMAIN json_loads(StripFences(outcomes[i].text)).val.fields
                        => all_results[i][key] = JStr("(AI Error)")
    /\ status = 200 => body.results = all_results

\* A success response with a blank record, a record of a failed entry and
\* a record parsed from an object that holds error, knowledge and extra keys.
C7_Witness ==
    /\ Done200
    /\ \E i, j \in 1..Len(body.results) :
          /\ outcomes[i].kind = "parsed"
          /\ outcomes[i].text = ExtraKeysText
          /\ {"knowledge", "error", "extra"} \subseteq DOMAIN json_loads(ExtraKeysText).val.fields
          /\ body.results[i]["rvw"] = JStr("Q?")
          /\ body.results[i]["fcs"] = JStr("(AI Error)")
          /\ outcomes[j].kind \in {"blank", "text_raised"}

-----------------------------------------------------------------------------
(* C8 *)

\* The object the parser decoded from the text.
DecodedObject(text) == json_loads(StripFences(text)).val

\* C8: each AI field of a parsed record is the decoded object's value for
\* the key if the key is present with a string value and the placeholder
\* otherwise, so every AI field is a string.
C8_FieldsAreStrings ==
    (p_pc = "returned" /\ ~p_result.raised /\ ~DecodeFails(p_text)) =>
        \A key \in AIKeys :
            /\ p_result.value[key].type = "string"
            /\ p_result.value[key] =
                  IF /\ key \in DOMAIN DecodedObject(p_text).fields
                     /\ DecodedObject(p_text).fields[key].type = "string"
                  THEN DecodedObject(p_text).fields[key]
                  ELSE JStr("(AI Error)")

-----------------------------------------------------------------------------
(* C9 *)

\* The record the claim expects for the object text J: J's value under
\* each AI key J holds, the placeholder under the others.
ExpectedRecord(J, knowledge, skill) ==
    [key \in RecordKeys |->
        IF key = "knowledge" THEN knowledge
        ELSE IF key = "skill" THEN skill
        ELSE IF key \in DOMAIN json_loads(J).val.fields THEN json_loads(J).val.fields[key]
        ELSE JStr("(AI Error)")]

\* C9: an object text J between a leading fence marker, with or without
\* the json tag, and a trailing fence marker parses to the record of J
\* unwrapped; a text with no fence marker is left as it is by the
\* stripping step.
C9_FenceTolerance ==
    /\ (p_pc = "returned" /\ p_body \in ObjectTexts
            /\ p_lead \in {FenceJson, Fence} /\ p_trail = Fence) =>
          /\ p_result = parse_ai_response(p_body, p_knowledge, p_skill)
          /\ p_result = Returned(ExpectedRecord(p_body, p_knowledge, p_skill))
    /\ (p_lead = <<>> /\ p_trail = <<>> /\ p_body # <<>>) => StripFences(p_text) = p_text

-----------------------------------------------------------------------------
(* C10 *)

\* C10: the calls of one batch are made in increasing entry order, at most
\* one per entry, none for a blank entry and exactly one for every answered
\* entry with all three fields present (so, in a finished batch of day
\* entries, exactly one for each such entry); the call for entry j is made
\* when the records of all entries before j, and no others, are in the
\* results; a failed call is not repeated.
C10_SequentialCalls ==
    /\ \A c \in 1..Len(calls) :
          /\ calls[c].appended = calls[c].entry - 1
          /\ ~BlankEntry(days_data[calls[c].entry])
          /\ \A d \in 1..Len(calls) : c < d => calls[c].entry < calls[d].entry
    /\ \A i \in 1..Len(all_results) :
          Cardinality(CallsFor(i)) = IF BlankEntry(days_data[i]) THEN 0 ELSE 1
    /\ (pc = "done" /\ DaysIsList /\ AllDayEntries) =>
          \A i \in 1..Len(DayList) :
              Cardinality(CallsFor(i)) = IF BlankEntry(DayList[i]) THEN 0 ELSE 1
    /\ Len(calls) <= Len(days_data)

====
